---- MODULE Spec2Model ----
(***************************************************************************)
(* Clustering engine and recommender of the reading-history analyser       *)
(* (app/cluster.py, app/embed.py, app/db.py, app/recommend.py).            *)
(*                                                                         *)
(* Conventions of the model                                                *)
(*  - A stored embedding is a record [kind, vec]: kind "none" is a NULL or *)
(*    empty column (falsy), kind "bad" a non-empty string json.loads       *)
(*    rejects, kind "json" a string that decodes to the vector vec.        *)
(*  - An optional column (cluster_id, centroid_distance, umap_x, umap_y)   *)
(*    is <<>> when NULL and <<v>> when set.                                *)
(*  - The book columns are the ones BookUpdate names (db.py 68-80) and     *)
(*    cluster.py and embed.py read; the Book class lists them in comments  *)
(*    only (db.py 37-42) and the model takes them as declared there.       *)
(*  - In Spec a call of cluster_all_books runs alone: the store changes    *)
(*    only through the updates of the call itself.  SpecRuns follows       *)
(*    calls one after another with requests that change the book table     *)
(*    between them, SpecConc one call with such requests between its       *)
(*    steps, SpecRec the recommender (app/recommend.py).                   *)
(*  - Reals are integers: a silhouette score s is the integer              *)
(*    s * ScoreScale; a distance is the squared Euclidean distance; the    *)
(*    standard scaler centres a column and multiplies it by the row count  *)
(*    instead of dividing by the deviation.                                *)
(*  - KMeans and silhouette_score are library routines.  KMeans is the     *)
(*    deterministic assignment of every row to the first nearest of k      *)
(*    centroids seeded from the first distinct rows (fixed random_state);  *)
(*    the silhouette score of a labelling is any value of its range, which *)
(*    excludes -1: a sample scores -1 only when another cluster sits       *)
(*    entirely on it, and the samples of that cluster then score >= 0.     *)
(*  - None for the matrix is the empty sequence: a matrix that is not None *)
(*    has at least one row.                                                *)
(***************************************************************************)
EXTENDS Integers, Sequences, FiniteSets, TLC

\* ---------------------------------------------------------------- bounds
MaxBooks == 4
MaxRows == 8
MaxK == 3
MaxVal == 2
ScoreScale == 2
MaxRunBooks == 6
MaxRuns == 2
MaxChanges == 1
MaxFail == 1
MaxRunVal == 1
MaxRunK == 2
MaxConcBooks == 4
MaxRecBooks == 2
MaxRecs == 2
MaxLines == 2
MaxLimit == 2
MaxComponents == 3
MaxUmapBooks == 4
MaxCsvIds == 2
MaxCsvRows == 2
MaxIngests == 3
MaxEmbedBooks == 3

VARIABLES
    store,              \* rows of the book table, in get_all_books order
    min_k, max_k,       \* BookClusterer configuration
    pc,                 \* position of the running call
    embeddings,         \* matrix handed to the numeric steps (<<>> = None)
    row_of,             \* history: book_id each matrix row was decoded from
    books,              \* book_ids of the list get_books_with_embeddings gave
    k,                  \* loop variable of find_optimal_k
    best_k, best_score, \* locals of find_optimal_k
    evaluated,          \* history: candidates the loop body ran for
    scored,             \* history: <<k, score>> of every candidate scored
    raised,             \* history: candidates whose loop body raised
    last_outcome,       \* history: what the last loop body did
    optimal_k,          \* k returned by find_optimal_k (0 = not yet)
    cluster_labels, centroid_distances, umap_coords,
    i,                  \* index of the persistence loop (0-based)
    updated_count,
    written,            \* history: book_ids whose record this run wrote
    failed,             \* history: book_ids whose update raised in this run
    result,             \* value returned by cluster_all_books
    run_no,             \* number of the call of cluster_all_books (from 1)
    last_k,             \* history: k of the last successful earlier call
    prev,               \* history: store, result and labels of the last call
    changes,            \* number of requests that changed the book table
    memo,               \* history: <<matrix, k, outcome>> of each loop body
    rec,                \* the BookRecommender and its last call
    n_components,       \* BookClusterer.umap_n_components
    query               \* last read-only or maintenance call and its result

vars == <<store, min_k, max_k, pc, embeddings, row_of, books, k, best_k,
          best_score, evaluated, scored, raised, last_outcome, optimal_k, cluster_labels,
          centroid_distances, umap_coords, i, updated_count, written, failed,
          result, run_no, last_k, prev, changes, memo, rec, n_components,
          query>>

\* --------------------------------------------------------------- helpers
Range(s) == {s[j] : j \in DOMAIN s}

Min(a, b) == IF a < b THEN a ELSE b

RECURSIVE SumSeq(_)
SumSeq(s) == IF s = <<>> THEN 0 ELSE Head(s) + SumSeq(Tail(s))

NoEmb == [kind |-> "none", vec |-> <<>>]
BadEmb == [kind |-> "bad", vec |-> <<>>]
JsonEmb(v) == [kind |-> "json", vec |-> v]

Vals == 0..MaxVal

\* stored embeddings the model draws from: absent, undecodable, vectors of
\* dimension 1 and one vector of dimension 2
EmbChoices == {NoEmb, BadEmb} \cup {JsonEmb(<<v>>) : v \in Vals}
                 \cup {JsonEmb(<<0, 0>>)}

NoResult == [success |-> FALSE, error |-> "", optimal_k |-> 0,
             total_books |-> 0, updated_books |-> 0,
             cluster_distribution |-> <<>>]

\* no BookRecommender has been constructed
NoRec == [pc |-> "new", model |-> FALSE, attrs |-> {}, weights |-> <<>>,
          call |-> "none", limit |-> 0, target |-> 0,
          response |-> [kind |-> "none"], out |-> <<>>]

\* before the first call there is no earlier call
\* no call other than a clustering run or a recommendation has been made
NoQuery == [op |-> "none", calls |-> 0, cluster_id |-> 0, limit |-> 0,
            out |-> <<>>]

NoPrev == [store |-> <<>>, result |-> NoResult, labels |-> <<>>,
           written |-> {}]

\* ------------------------------------------------------------- embed.py
\* `if book.embedding`: None and "" are falsy, any other string is truthy
HasEmbedding(b) == b.embedding.kind # "none"

\* json.loads(book.embedding) succeeds
Decodes(b) == b.embedding.kind = "json"

get_books_with_embeddings(st) == SelectSeq(st, HasEmbedding)

\* the rows get_embeddings_matrix stacks, with the book each came from
DecodedBooks(st) == SelectSeq(get_books_with_embeddings(st), Decodes)

get_embeddings_matrix(st) ==
    [j \in 1..Len(DecodedBooks(st)) |-> DecodedBooks(st)[j].embedding.vec]

MatrixOwners(st) ==
    [j \in 1..Len(DecodedBooks(st)) |-> DecodedBooks(st)[j].book_id]

\* np.array of rows of unequal length
IsRagged(X) == \E a, b \in DOMAIN X : Len(X[a]) # Len(X[b])

\* ----------------------------------------------------------- numeric core
RECURSIVE SqDistFrom(_, _, _)
SqDistFrom(a, b, d) ==
    IF d > Len(a) THEN 0
    ELSE (a[d] - b[d]) * (a[d] - b[d]) + SqDistFrom(a, b, d + 1)

SqDist(a, b) == SqDistFrom(a, b, 1)

\* an explicit tuple with the elements of the sequence s
Tup(s) == s \o <<>>

\* StandardScaler.fit_transform: per column, zero mean (times the row count)
StandardScale(X) ==
    LET n == Len(X)
        colsum == Tup([d \in 1..Len(X[1]) |->
                          SumSeq(Tup([q \in 1..n |-> X[q][d]]))])
    IN  Tup([r \in 1..n |->
                Tup([d \in 1..Len(X[r]) |-> n * X[r][d] - colsum[d]])])

\* rows that differ from every earlier row, in row order
RECURSIVE DistinctRows(_, _)
DistinctRows(X, seen) ==
    IF X = <<>> THEN <<>>
    ELSE IF Head(X) \in seen THEN DistinctRows(Tail(X), seen)
    ELSE <<Head(X)>> \o DistinctRows(Tail(X), seen \cup {Head(X)})

\* cluster_centers_ of KMeans(n_clusters = kk, random_state = 42)
Centroids(X, kk) ==
    LET D == DistinctRows(X, {})
    IN  Tup([c \in 1..kk |-> IF c <= Len(D) THEN D[c] ELSE X[1]])

\* variant: the position of the nearest centroid counted from 1
Nearest_OneBased(x, C) ==
    LET dist == Tup([c \in 1..Len(C) |-> SqDist(x, C[c])])
    IN  CHOOSE c \in 1..Len(C) :
            \A c2 \in 1..Len(C) :
                \/ dist[c] < dist[c2]
                \/ dist[c] = dist[c2] /\ c <= c2

\* index (from 0) of the first nearest centroid, as np.argmin gives it
Nearest(x, C) ==
    LET dist == Tup([c \in 1..Len(C) |-> SqDist(x, C[c])])
    IN  (CHOOSE c \in 1..Len(C) :
            \A c2 \in 1..Len(C) :
                \/ dist[c] < dist[c2]
                \/ dist[c] = dist[c2] /\ c <= c2) - 1

\* KMeans raises ValueError for n_samples < n_clusters, for n_clusters < 1
\* and for an object array of ragged rows
KMeansRaises(X, kk) == kk < 1 \/ kk > Len(X) \/ IsRagged(X)

\* kmeans.fit_predict(X)
fit_predict(X, kk) ==
    LET C == Centroids(X, kk)
    IN  Tup([r \in 1..Len(X) |-> Nearest(X[r], C)])

\* kmeans.transform(X): distance of every row to every centroid
transform(X, kk) ==
    LET C == Centroids(X, kk)
    IN  Tup([r \in 1..Len(X) |-> Tup([c \in 1..kk |-> SqDist(X[r], C[c])])])

\* np.min over axis 1
MinOf(s) == CHOOSE m \in Range(s) : \A o \in Range(s) : m <= o

perform_clustering(X, kk) ==
    LET S == StandardScale(X)
        T == transform(S, kk)
    IN  [labels |-> fit_predict(S, kk),
         dists |-> Tup([r \in 1..Len(X) |-> MinOf(T[r])])]

\* scores silhouette_score can return, times ScoreScale: the range (-1, 1]
ScoreVals == (1 - ScoreScale)..ScoreScale

\* variant: best_score = 0
InitBestScore_Zero == 0 * ScoreScale

\* best_score = -1
InitBestScore == (-1) * ScoreScale

\* variant: range(min_k, min(max_k + 2, N // 2))
RangeEnd_PastMax(X, lo, hi) == Min(hi + 2, Len(X) \div 2)

\* variant: range(min_k, min(max_k, N // 2))
RangeEnd_NoPlusOne(X, lo, hi) == Min(hi, Len(X) \div 2)

\* range(self.min_k, min(self.max_k + 1, len(embeddings) // 2)) stops here
RangeEnd(X, lo, hi) == Min(hi + 1, Len(X) \div 2)

\* -------------------------------------------------------- find_optimal_k
\* variant: if score >= best_score
Improves_OrEqual(score, best) == score >= best

\* if score > best_score
Improves(score, best) == score > best

\* variant: the exception leaves find_optimal_k
AfterRaise_Propagate == "raised"

\* except Exception: log, continue -- the loop goes on
AfterRaise == "find_k"

\* variant: KMeans and silhouette_score without a fixed seed
Seeded_Unseeded(out) ==
    memo' = memo \cup {<<embeddings, k, out>>}

\* KMeans(random_state=42, n_init=10) and silhouette_score are functions of
\* the matrix and k: a loop body that ran before on the same matrix with the
\* same k ends the same way
Seeded(out) ==
    /\ \A m \in memo : (m[1] = embeddings /\ m[2] = k) => m[3] = out
    /\ memo' = memo \cup {<<embeddings, k, out>>}

\* one pass of the loop body for candidate k
FindKEval ==
    /\ pc = "find_k"
    /\ UNCHANGED <<run_no, last_k, prev, changes, rec, n_components, query>>
    /\ k < RangeEnd(embeddings, min_k, max_k)
    /\ \/ \* KMeans or silhouette_score raises: logged, continue
          /\ last_outcome' = "raise"
          /\ Seeded(<<"raise", 0>>)
          /\ raised' = raised \cup {k}
          /\ pc' = AfterRaise
          /\ UNCHANGED <<best_k, best_score, scored>>
       \/ \* a single distinct label: no score
          /\ ~KMeansRaises(embeddings, k)
          /\ Cardinality(Range(fit_predict(embeddings, k))) <= 1
          /\ last_outcome' = "single"
          /\ Seeded(<<"single", 0>>)
          /\ UNCHANGED <<best_k, best_score, scored, raised, pc>>
       \/ /\ ~KMeansRaises(embeddings, k)
          /\ Cardinality(Range(fit_predict(embeddings, k))) > 1
          /\ \E score \in ScoreVals :
                /\ scored' = scored \cup {<<k, score>>}
                /\ Seeded(<<"score", score>>)
                /\ IF Improves(score, best_score)
                   THEN /\ best_score' = score
                        /\ best_k' = k
                        /\ last_outcome' = "better"
                   ELSE /\ UNCHANGED <<best_k, best_score>>
                        /\ last_outcome' = "scored"
          /\ UNCHANGED <<raised, pc>>
    /\ evaluated' = evaluated \cup {k}
    /\ k' = k + 1
    /\ UNCHANGED <<store, min_k, max_k, embeddings, row_of, books,
                   optimal_k, cluster_labels, centroid_distances, umap_coords,
                   i, updated_count, written, failed, result>>

\* the range is exhausted: return best_k
FindKReturn ==
    /\ pc = "find_k"
    /\ UNCHANGED <<run_no, last_k, prev, changes, memo, rec, n_components,
                   query>>
    /\ k >= RangeEnd(embeddings, min_k, max_k)
    /\ optimal_k' = best_k
    /\ pc' = "cluster"
    /\ UNCHANGED <<store, min_k, max_k, embeddings, row_of, books, k, best_k,
                   best_score, evaluated, scored, raised, last_outcome, cluster_labels,
                   centroid_distances, umap_coords, i, updated_count, written,
                   failed, result>>

\* ------------------------------------------------- perform_umap_reduction
\* default of umap_n_components (UMAP_N_COMPONENTS)
umap_n_components == 2

\* reducer.fit_transform(embeddings_scaled): one point of
\* self.umap_n_components coordinates per row, a function of the scaled row
\* (fixed random_state)
perform_umap_reduction(X) ==
    LET S == StandardScale(X)
    IN  Tup([r \in 1..Len(X) |->
                Tup([d \in 1..n_components |-> d * S[r][1]])])

\* ------------------------------------------------------------- db.py
\* variant: the cluster column is written one too high
update_book_PlusOne(st, id, upd) ==
    [j \in 1..Len(st) |->
        IF st[j].book_id = id
        THEN [st[j] EXCEPT !.cluster_id = <<upd.cluster_id + 1>>,
                           !.centroid_distance = <<upd.centroid_distance>>,
                           !.umap_x = <<upd.umap_x>>,
                           !.umap_y = <<upd.umap_y>>]
        ELSE st[j]]

\* DatabaseManager.update_book: set the given columns of the row with this
\* book_id; a book_id that is not stored changes nothing and raises nothing
update_book(st, id, upd) ==
    [j \in 1..Len(st) |->
        IF st[j].book_id = id
        THEN [st[j] EXCEPT !.cluster_id = <<upd.cluster_id>>,
                           !.centroid_distance = <<upd.centroid_distance>>,
                           !.umap_x = <<upd.umap_x>>,
                           !.umap_y = <<upd.umap_y>>]
        ELSE st[j]]

\* variant: every label counted once
get_cluster_distribution_Ones(labels) ==
    [l \in Range(labels) |-> 1]

\* _get_cluster_distribution: label -> number of rows carrying it
get_cluster_distribution(labels) ==
    [l \in Range(labels) |-> Cardinality({r \in DOMAIN labels : labels[r] = l})]

Failure(msg) == [NoResult EXCEPT !.error = msg]

\* ------------------------------------------------------ cluster_all_books
\* get_embeddings_data, first half: self.embedding_generator
\* .get_embeddings_matrix().  np.array of ragged rows either raises
\* (the exception leaves cluster_all_books) or gives an object array.
GetEmbeddingsMatrix ==
    /\ pc = "idle"
    /\ UNCHANGED <<run_no, last_k, prev, changes, memo, rec, n_components,
                   query>>
    /\ \/ /\ embeddings' = get_embeddings_matrix(store)
          /\ row_of' = MatrixOwners(store)
          /\ pc' = "got_matrix"
       \/ /\ IsRagged(get_embeddings_matrix(store))
          /\ pc' = "raised"
          /\ UNCHANGED <<embeddings, row_of>>
    /\ UNCHANGED <<store, min_k, max_k, books, k, best_k, best_score,
                   evaluated, scored, raised, last_outcome, optimal_k, cluster_labels,
                   centroid_distances, umap_coords, i, updated_count, written,
                   failed, result>>

\* variant: if len(books_with_embeddings) == 0
NoData_BooksOnly(X, bl) == Len(bl) = 0

\* if embeddings_matrix is None or len(books_with_embeddings) == 0
NoData(X, bl) == X = <<>> \/ Len(bl) = 0

\* get_embeddings_data, second half: get_books_with_embeddings(), the None
\* test, and in cluster_all_books the early return or the entry into
\* find_optimal_k
GetBooks ==
    /\ pc = "got_matrix"
    /\ UNCHANGED <<run_no, last_k, prev, changes, memo, rec, n_components,
                   query>>
    /\ LET bl == get_books_with_embeddings(store)
       IN  IF NoData(embeddings, bl)
           THEN /\ books' = <<>>
                /\ embeddings' = <<>>
                /\ result' = Failure("No embeddings available")
                /\ pc' = "done"
                /\ UNCHANGED <<k, best_k, best_score>>
           ELSE /\ books' = [j \in 1..Len(bl) |-> bl[j].book_id]
                /\ pc' = "find_k"
                /\ k' = min_k
                /\ best_k' = min_k
                /\ best_score' = InitBestScore
                /\ UNCHANGED <<embeddings, result>>
    /\ UNCHANGED <<store, min_k, max_k, row_of, evaluated, scored, raised, last_outcome,
                   optimal_k, cluster_labels, centroid_distances, umap_coords,
                   i, updated_count, written, failed>>

\* cluster_labels, centroid_distances = self.perform_clustering(...)
ClusterStep ==
    /\ pc = "cluster"
    /\ UNCHANGED <<run_no, last_k, prev, changes, memo, rec, n_components,
                   query>>
    /\ IF KMeansRaises(embeddings, optimal_k)
       THEN /\ result' = Failure("clustering failed")
            /\ pc' = "done"
            /\ UNCHANGED <<cluster_labels, centroid_distances>>
       ELSE LET res == perform_clustering(embeddings, optimal_k)
            IN  /\ cluster_labels' = res.labels
                /\ centroid_distances' = res.dists
                /\ pc' = "umap"
                /\ UNCHANGED result
    /\ UNCHANGED <<store, min_k, max_k, embeddings, row_of, books, k, best_k,
                   best_score, evaluated, scored, raised, last_outcome, optimal_k, umap_coords,
                   i, updated_count, written, failed>>

\* umap_coords = self.perform_umap_reduction(embeddings), then
\* updated_count = 0
UmapStep ==
    /\ pc = "umap"
    /\ UNCHANGED <<run_no, last_k, prev, changes, memo, rec, n_components,
                   query>>
    /\ umap_coords' = perform_umap_reduction(embeddings)
    /\ pc' = "persist"
    /\ i' = 0
    /\ updated_count' = 0
    /\ UNCHANGED result
    /\ UNCHANGED <<store, min_k, max_k, embeddings, row_of, books, k, best_k,
                   best_score, evaluated, scored, raised, last_outcome, optimal_k,
                   cluster_labels, centroid_distances, written, failed>>

\* one pass of `for i, book in enumerate(books)`
PersistBook ==
    /\ pc = "persist"
    /\ UNCHANGED <<run_no, last_k, prev, changes, memo, rec, n_components,
                   query>>
    /\ i < Len(books)
    /\ IF i + 1 > Len(cluster_labels) \/ Len(umap_coords[i + 1]) < 2
       THEN \* cluster_labels[i] or umap_coords[i, 1]: IndexError, caught by
            \* the outer handler
            /\ result' = Failure("index out of bounds")
            /\ pc' = "done"
            /\ UNCHANGED <<store, i, updated_count, written, failed>>
       ELSE /\ \/ \* update_book_clustering returns True
                  /\ store' = update_book(store, books[i + 1],
                                 [cluster_id |-> cluster_labels[i + 1],
                                  centroid_distance |-> centroid_distances[i + 1],
                                  umap_x |-> umap_coords[i + 1][1],
                                  umap_y |-> umap_coords[i + 1][2]])
                  /\ written' = written \cup
                        ({books[i + 1]} \cap
                            {store[j].book_id : j \in DOMAIN store})
                  /\ updated_count' = updated_count + 1
                  /\ UNCHANGED failed
               \/ \* self.db.update_book raises: logged, returns False
                  /\ failed' = failed \cup {books[i + 1]}
                  /\ UNCHANGED <<store, written, updated_count>>
            /\ i' = i + 1
            /\ UNCHANGED <<pc, result>>
    /\ UNCHANGED <<min_k, max_k, embeddings, row_of, books, k, best_k,
                   best_score, evaluated, scored, raised, last_outcome, optimal_k,
                   cluster_labels, centroid_distances, umap_coords>>

\* the loop is over: return the summary
PersistDone ==
    /\ pc = "persist"
    /\ UNCHANGED <<run_no, last_k, prev, changes, memo, rec, n_components,
                   query>>
    /\ i >= Len(books)
    /\ result' = [success |-> TRUE, error |-> "", optimal_k |-> optimal_k,
                  total_books |-> Len(books), updated_books |-> updated_count,
                  cluster_distribution |->
                      get_cluster_distribution(cluster_labels)]
    /\ pc' = "done"
    /\ UNCHANGED <<store, min_k, max_k, embeddings, row_of, books, k, best_k,
                   best_score, evaluated, scored, raised, last_outcome, optimal_k,
                   cluster_labels, centroid_distances, umap_coords, i,
                   updated_count, written, failed>>

NewBook(id, e) ==
    [book_id |-> id, embedding |-> e, cluster_id |-> <<>>,
     centroid_distance |-> <<>>, umap_x |-> <<>>, umap_y |-> <<>>]

Init ==
    /\ store \in UNION {{[j \in 1..n |-> NewBook(j, es[j])] :
                            es \in [1..n -> EmbChoices]} : n \in 0..MaxBooks}
    /\ min_k \in 1..MaxK
    /\ max_k \in min_k..MaxK
    /\ pc = "idle"
    /\ embeddings = <<>>
    /\ row_of = <<>>
    /\ books = <<>>
    /\ k = min_k
    /\ best_k = min_k
    /\ best_score = InitBestScore
    /\ evaluated = {}
    /\ scored = {}
    /\ raised = {}
    /\ last_outcome = "none"
    /\ optimal_k = 0
    /\ cluster_labels = <<>>
    /\ centroid_distances = <<>>
    /\ umap_coords = <<>>
    /\ i = 0
    /\ updated_count = 0
    /\ written = {}
    /\ failed = {}
    /\ result = NoResult
    /\ run_no = 1
    /\ last_k = 0
    /\ prev = NoPrev
    /\ changes = 0
    /\ memo = {}
    /\ rec = NoRec
    /\ n_components = umap_n_components
    /\ query = NoQuery

Next ==
    \/ GetEmbeddingsMatrix
    \/ GetBooks
    \/ FindKEval
    \/ FindKReturn
    \/ ClusterStep
    \/ UmapStep
    \/ PersistBook
    \/ PersistDone

Spec == Init /\ [][Next]_vars

\* --------------------------------------- a run under any UMAP_N_COMPONENTS
\* self.umap_n_components = int(os.getenv('UMAP_N_COMPONENTS', '2'))
ConfiguredComponents == 1..MaxComponents

InitUmap ==
    /\ store \in UNION {{[j \in 1..n |-> NewBook(j, es[j])] :
                            es \in [1..n -> EmbChoices]} : n \in 0..MaxUmapBooks}
    /\ min_k \in 1..MaxK
    /\ max_k \in min_k..MaxK
    /\ pc = "idle"
    /\ embeddings = <<>>
    /\ row_of = <<>>
    /\ books = <<>>
    /\ k = min_k
    /\ best_k = min_k
    /\ best_score = InitBestScore
    /\ evaluated = {}
    /\ scored = {}
    /\ raised = {}
    /\ last_outcome = "none"
    /\ optimal_k = 0
    /\ cluster_labels = <<>>
    /\ centroid_distances = <<>>
    /\ umap_coords = <<>>
    /\ i = 0
    /\ updated_count = 0
    /\ written = {}
    /\ failed = {}
    /\ result = NoResult
    /\ run_no = 1
    /\ last_k = 0
    /\ prev = NoPrev
    /\ changes = 0
    /\ memo = {}
    /\ rec = NoRec
    /\ n_components \in ConfiguredComponents
    /\ query = NoQuery

SpecUmap == InitUmap /\ [][Next]_vars

\* ------------------------------------------- the functions on their own
\* perform_clustering called with any k in 1..N on the matrix
PerformClusteringAny ==
    /\ pc = "start"
    /\ UNCHANGED <<run_no, last_k, prev, changes, memo, rec, n_components,
                   query>>
    /\ \E kk \in 1..Len(embeddings) :
          LET res == perform_clustering(embeddings, kk)
          IN  /\ optimal_k' = kk
              /\ cluster_labels' = res.labels
              /\ centroid_distances' = res.dists
    /\ pc' = "assigned"
    /\ UNCHANGED <<store, min_k, max_k, embeddings, row_of, books, k, best_k,
                   best_score, evaluated, scored, raised, last_outcome, umap_coords, i,
                   updated_count, written, failed, result>>

\* find_optimal_k called on the matrix: best_score = -1, best_k = min_k
CallFindOptimalK ==
    /\ pc = "start"
    /\ UNCHANGED <<run_no, last_k, prev, changes, memo, rec, n_components,
                   query>>
    /\ pc' = "find_k"
    /\ k' = min_k
    /\ best_k' = min_k
    /\ best_score' = InitBestScore
    /\ UNCHANGED <<store, min_k, max_k, embeddings, row_of, books, evaluated, scored, raised,
                   last_outcome, optimal_k, cluster_labels, centroid_distances,
                   umap_coords, i, updated_count, written, failed, result>>

\* the matrices the functions are called with: up to MaxRows rows of one
\* dimension, listed in non-decreasing order
Matrices ==
    UNION {{X \in [1..n -> {<<v>> : v \in Vals}] :
               \A j \in 1..(n - 1) : X[j][1] <= X[j + 1][1]} : n \in 1..MaxRows}

InitFn ==
    /\ store = <<>>
    /\ min_k \in 1..MaxK
    /\ max_k \in min_k..MaxK
    /\ embeddings \in Matrices
    /\ row_of = <<>>
    /\ books = <<>>
    /\ pc = "start"
    /\ k = min_k
    /\ best_k = min_k
    /\ best_score = InitBestScore
    /\ evaluated = {}
    /\ scored = {}
    /\ raised = {}
    /\ last_outcome = "none"
    /\ optimal_k = 0
    /\ cluster_labels = <<>>
    /\ centroid_distances = <<>>
    /\ umap_coords = <<>>
    /\ i = 0
    /\ updated_count = 0
    /\ written = {}
    /\ failed = {}
    /\ result = NoResult
    /\ run_no = 1
    /\ last_k = 0
    /\ prev = NoPrev
    /\ changes = 0
    /\ memo = {}
    /\ rec = NoRec
    /\ n_components = umap_n_components
    /\ query = NoQuery

NextFn == CallFindOptimalK \/ FindKEval \/ FindKReturn \/ PerformClusteringAny

SpecFn == InitFn /\ [][NextFn]_vars

\* ------------------------------------------------- calls one after another
\* the call has returned or raised and cluster_all_books will be called
\* again (POST /cluster): the locals of the next call are fresh, the book
\* table and the configuration are what the call left
NewRun ==
    /\ pc \in {"done", "raised"}
    /\ run_no < MaxRuns
    /\ run_no' = run_no + 1
    /\ last_k' = IF pc = "done" /\ result.success
                 THEN result.optimal_k ELSE last_k
    /\ prev' = [store |-> store,
                result |-> IF pc = "done" THEN result ELSE NoResult,
                labels |-> cluster_labels,
                written |-> written]
    /\ pc' = "idle"
    /\ embeddings' = <<>>
    /\ row_of' = <<>>
    /\ books' = <<>>
    /\ k' = min_k
    /\ best_k' = min_k
    /\ best_score' = InitBestScore
    /\ evaluated' = {}
    /\ scored' = {}
    /\ raised' = {}
    /\ last_outcome' = "none"
    /\ optimal_k' = 0
    /\ cluster_labels' = <<>>
    /\ centroid_distances' = <<>>
    /\ umap_coords' = <<>>
    /\ i' = 0
    /\ updated_count' = 0
    /\ written' = {}
    /\ failed' = {}
    /\ result' = NoResult
    /\ UNCHANGED <<store, min_k, max_k, changes, memo, rec, n_components,
                   query>>

\* what a request other than the clustering call leaves alone
RunState ==
    <<min_k, max_k, pc, embeddings, row_of, books, k, best_k, best_score,
      evaluated, scored, raised, last_outcome, optimal_k, cluster_labels,
      centroid_distances, umap_coords, i, updated_count, written, failed,
      result, run_no, last_k, prev, memo, rec, n_components, query>>

\* a book_id no row of the table has
FreshId(st) == Len(st) + Cardinality({st[j].book_id : j \in DOMAIN st}) + 1

\* DatabaseManager.add_book: a new row, no embedding, no cluster
AddBook ==
    /\ changes < MaxChanges
    /\ changes' = changes + 1
    /\ store' = Append(store, NewBook(FreshId(store), NoEmb))
    /\ UNCHANGED RunState

\* values written to an embedding column: an empty one, one json.loads
\* rejects, a decodable vector
PutChoices == {NoEmb, BadEmb, JsonEmb(<<0>>)}

\* DatabaseManager.update_book(book_id, BookUpdate(embedding=...)): the
\* embedding column of one row is set (embed_book writes a decodable one)
PutEmbedding ==
    /\ changes < MaxChanges
    /\ changes' = changes + 1
    /\ \E j \in DOMAIN store : \E e \in PutChoices :
          /\ e # store[j].embedding
          /\ store' = [store EXCEPT ![j].embedding = e]
    /\ UNCHANGED RunState

\* GET /reset: drop_all and create_tables leave an empty book table
ResetDatabase ==
    /\ changes < MaxChanges
    /\ changes' = changes + 1
    /\ store # <<>>
    /\ store' = <<>>
    /\ UNCHANGED RunState

\* the last call has returned and the next has not read the table yet
BetweenRuns == pc = "idle" /\ run_no > 1

\* book tables of decodable one-dimensional embeddings, in non-decreasing
\* order, none clustered yet
RunStores ==
    UNION {{[j \in 1..n |-> NewBook(j, JsonEmb(X[j]))] :
               X \in {Y \in [1..n -> {<<v>> : v \in 0..MaxRunVal}] :
                         \A j \in 1..(n - 1) : Y[j][1] <= Y[j + 1][1]}} :
           n \in 0..MaxRunBooks}

InitRuns ==
    /\ store \in RunStores
    /\ min_k \in 1..MaxRunK
    /\ max_k \in min_k..MaxRunK
    /\ pc = "idle"
    /\ embeddings = <<>>
    /\ row_of = <<>>
    /\ books = <<>>
    /\ k = min_k
    /\ best_k = min_k
    /\ best_score = InitBestScore
    /\ evaluated = {}
    /\ scored = {}
    /\ raised = {}
    /\ last_outcome = "none"
    /\ optimal_k = 0
    /\ cluster_labels = <<>>
    /\ centroid_distances = <<>>
    /\ umap_coords = <<>>
    /\ i = 0
    /\ updated_count = 0
    /\ written = {}
    /\ failed = {}
    /\ result = NoResult
    /\ run_no = 1
    /\ last_k = 0
    /\ prev = NoPrev
    /\ changes = 0
    /\ memo = {}
    /\ rec = NoRec
    /\ n_components = umap_n_components
    /\ query = NoQuery

\* at most MaxFail updates of one call raise
FewFailures == Cardinality(failed') <= MaxFail

NextRuns ==
    \/ GetEmbeddingsMatrix
    \/ GetBooks
    \/ FindKEval
    \/ FindKReturn
    \/ ClusterStep
    \/ UmapStep
    \/ PersistBook /\ FewFailures
    \/ PersistDone
    \/ NewRun
    \/ BetweenRuns /\ AddBook
    \/ BetweenRuns /\ PutEmbedding
    \/ BetweenRuns /\ ResetDatabase

SpecRuns == InitRuns /\ [][NextRuns]_vars

\* ------------------------------------- a call with other requests around
\* the call has read the table once and has not returned yet
Running == pc \in {"got_matrix", "find_k", "cluster", "umap", "persist"}

\* book tables of up to MaxConcBooks books, each without an embedding or
\* with a decodable one-dimensional one
ConcStores ==
    UNION {{[j \in 1..n |-> NewBook(j, es[j])] :
               es \in [1..n -> {NoEmb} \cup
                                {JsonEmb(<<v>>) : v \in 0..MaxRunVal}]} :
           n \in 0..MaxConcBooks}

InitConc ==
    /\ store \in ConcStores
    /\ min_k \in 1..MaxRunK
    /\ max_k \in min_k..MaxRunK
    /\ pc = "idle"
    /\ embeddings = <<>>
    /\ row_of = <<>>
    /\ books = <<>>
    /\ k = min_k
    /\ best_k = min_k
    /\ best_score = InitBestScore
    /\ evaluated = {}
    /\ scored = {}
    /\ raised = {}
    /\ last_outcome = "none"
    /\ optimal_k = 0
    /\ cluster_labels = <<>>
    /\ centroid_distances = <<>>
    /\ umap_coords = <<>>
    /\ i = 0
    /\ updated_count = 0
    /\ written = {}
    /\ failed = {}
    /\ result = NoResult
    /\ run_no = 1
    /\ last_k = 0
    /\ prev = NoPrev
    /\ changes = 0
    /\ memo = {}
    /\ rec = NoRec
    /\ n_components = umap_n_components
    /\ query = NoQuery

\* one call of cluster_all_books; the handlers of other requests run
\* between its steps
NextConc ==
    \/ GetEmbeddingsMatrix
    \/ GetBooks
    \/ FindKEval
    \/ FindKReturn
    \/ ClusterStep
    \/ UmapStep
    \/ PersistBook
    \/ PersistDone
    \/ Running /\ AddBook
    \/ Running /\ PutEmbedding
    \/ Running /\ ResetDatabase

SpecConc == InitConc /\ [][NextConc]_vars

\* ------------------------------------------------------- recommend.py
\* Conventions of this part
\*  - The answer of the Gemini model is an input of the call: the call
\*    raising, an empty text, text that is no JSON, JSON that is no object,
\*    or a JSON object with a list of entries.
\*  - An entry has book_id (0 = key absent or empty), title, author and
\*    explanation ("" = absent or empty) and a score in tenths.
\*  - A line of text is the number of times it holds "by" and whether it
\*    holds the word title or author.
\*  - The book_id "extracted_n" is the number -(n + 1).
\*  - The query only enters the prompt; the answer is drawn for every
\*    prompt alike.
\*  - A call keeps nothing in the recommender, so one call is followed
\*    from each constructed recommender.

\* "relevance_score": 0.8 of an extracted entry, in tenths
ExtractedScore == 8

\* scores asked of the model: 0.0-1.0, in tenths
FullScore == 10

RecScores == {0, ExtractedScore, FullScore}

\* attributes BookRecommender.__init__ assigns
InitAttrs == {"db", "model", "prompt_template"}

\* BookRecommender(): no arguments; self.model is None without
\* GOOGLE_GEMINI_API_KEY
Construct ==
    /\ rec.pc = "new"
    /\ \E api_key \in BOOLEAN :
          rec' = [rec EXCEPT !.pc = "ready", !.model = api_key,
                             !.attrs = InitAttrs]
    /\ UNCHANGED <<store, min_k, max_k, pc, embeddings, row_of, books, k,
                   best_k, best_score, evaluated, scored, raised,
                   last_outcome, optimal_k, cluster_labels,
                   centroid_distances, umap_coords, i, updated_count,
                   written, failed, result, run_no, last_k, prev, changes,
                   memo, n_components, query>>

\* entries a JSON answer can list
Entries ==
    [book_id : 0..(MaxRecBooks + 1), title : {"", "t"}, author : {"a"},
     explanation : {"", "e"}, score : RecScores]

\* lines of a text answer: how many times 'by' occurs, whether 'title' or
\* 'author' occurs, and for a line with one 'by' the stripped text before
\* and after it (the word, when present, is part of one of the two)
TextLines ==
    {l \in [bys : 0..2, word : BOOLEAN, before : {"", "t"},
            after : {"", "a"}] :
        IF l.bys = 1 THEN l.word => (l.before # "" \/ l.after # "")
        ELSE l.before = "t" /\ l.after = ""}

SeqsUpTo(S, n) == UNION {[1..m -> S] : m \in 0..n}

Responses ==
    {[kind |-> "raise"], [kind |-> "empty"], [kind |-> "json_other"]}
    \cup {[kind |-> "json", items |-> it] : it \in SeqsUpTo(Entries, MaxRecs)}
    \cup {[kind |-> "text", lines |-> ls] :
             ls \in SeqsUpTo(TextLines, MaxLines)}

\* _validate_recommendation: all(field in rec and rec[field] ...)
validate_recommendation(r) ==
    /\ r.book_id # 0
    /\ r.title # ""
    /\ r.author # ""
    /\ r.explanation # ""

\* the entry _extract_recommendations_from_text appends for a line
\* (title = parts[0].strip(), author = parts[1].strip())
ExtractedEntry(n, l) ==
    [book_id |-> 0 - (n + 1), title |-> l.before, author |-> l.after,
     explanation |-> "e", score |-> ExtractedScore]

\* if 'by' in line and ('title' in line.lower() or 'author' in ...), and
\* len(line.split('by')) == 2
LineMatches(l) == l.bys >= 1 /\ l.word /\ l.bys + 1 = 2

\* _extract_recommendations_from_text: the loop over the lines, leaving
\* once len(recommendations) >= limit after an append
RECURSIVE extract_from(_, _, _)
extract_from(lines, acc, limit) ==
    IF lines = <<>> THEN acc
    ELSE IF LineMatches(Head(lines))
         THEN LET acc2 == Append(acc, ExtractedEntry(Len(acc), Head(lines)))
              IN  IF Len(acc2) >= limit THEN acc2
                  ELSE extract_from(Tail(lines), acc2, limit)
         ELSE extract_from(Tail(lines), acc, limit)

extract_recommendations_from_text(lines, limit) ==
    extract_from(lines, <<>>, limit)

\* the validated entries, in the order of the answer
Validated(items) == SelectSeq(items, validate_recommendation)

\* recommend_books(query, limit) given the answer of the model and whether
\* add_llm_history succeeds
recommend_books(model, limit, resp, history_ok) ==
    IF ~model THEN <<>>
    ELSE IF resp.kind \in {"raise", "empty", "json_other"} THEN <<>>
    ELSE IF resp.kind = "json"
         THEN IF history_ok THEN Validated(resp.items) ELSE <<>>
         ELSE extract_recommendations_from_text(resp.lines, limit)

\* self.db.get_book(book_id): the row with this id, if any
HasBook(st, id) == \E j \in DOMAIN st : st[j].book_id = id

\* get_similar_books(book_id, limit) given the answer of the model
get_similar_books(model, st, id, limit, resp) ==
    IF ~HasBook(st, id) THEN <<>>
    ELSE IF ~model THEN <<>>
    ELSE IF resp.kind = "json" THEN Validated(resp.items)
    ELSE <<>>

RecRest ==
    <<store, min_k, max_k, pc, embeddings, row_of, books, k, best_k,
      best_score, evaluated, scored, raised, last_outcome, optimal_k,
      cluster_labels, centroid_distances, umap_coords, i, updated_count,
      written, failed, result, run_no, last_k, prev, changes, memo,
      n_components, query>>

\* GET /recommend: recommender.recommend_books(q, limit=limit)
RecommendBooks ==
    /\ rec.pc = "ready"
    /\ \E limit \in 0..MaxLimit : \E resp \in Responses :
       \E history_ok \in BOOLEAN :
          rec' = [rec EXCEPT !.pc = "returned", !.call = "recommend",
                     !.limit = limit, !.target = 0, !.response = resp,
                     !.out = recommend_books(rec.model, limit, resp,
                                             history_ok)]
    /\ UNCHANGED RecRest

\* GET /books/{book_id}/similar: recommender.get_similar_books(book_id,
\* limit=limit)
GetSimilarBooks ==
    /\ rec.pc = "ready"
    /\ \E id \in 1..(MaxRecBooks + 1) : \E limit \in 0..MaxLimit :
       \E resp \in Responses :
          rec' = [rec EXCEPT !.pc = "returned", !.call = "similar",
                     !.limit = limit, !.target = id, !.response = resp,
                     !.out = get_similar_books(rec.model, store, id, limit,
                                               resp)]
    /\ UNCHANGED RecRest

\* book tables of up to MaxRecBooks books with or without an embedding
RecStores ==
    UNION {{[j \in 1..n |-> NewBook(j, es[j])] :
               es \in [1..n -> {NoEmb, JsonEmb(<<0>>)}]} :
           n \in 0..MaxRecBooks}

InitRec ==
    /\ store \in RecStores
    /\ min_k = 1
    /\ max_k = 1
    /\ pc = "idle"
    /\ embeddings = <<>>
    /\ row_of = <<>>
    /\ books = <<>>
    /\ k = min_k
    /\ best_k = min_k
    /\ best_score = InitBestScore
    /\ evaluated = {}
    /\ scored = {}
    /\ raised = {}
    /\ last_outcome = "none"
    /\ optimal_k = 0
    /\ cluster_labels = <<>>
    /\ centroid_distances = <<>>
    /\ umap_coords = <<>>
    /\ i = 0
    /\ updated_count = 0
    /\ written = {}
    /\ failed = {}
    /\ result = NoResult
    /\ run_no = 1
    /\ last_k = 0
    /\ prev = NoPrev
    /\ changes = 0
    /\ memo = {}
    /\ rec = NoRec
    /\ n_components = umap_n_components
    /\ query = NoQuery

NextRec == Construct \/ RecommendBooks \/ GetSimilarBooks

SpecRec == InitRec /\ [][NextRec]_vars

\* ------------------------------------------ statistics and exemplars
\* DatabaseManager.get_books_by_cluster: the books with this cluster_id, in
\* table order
get_books_by_cluster(st, cid) ==
    SelectSeq(st, LAMBDA b : b.cluster_id = <<cid>>)

\* round(clustered / total * 100, 2), in hundredths of a percent
clustering_rate(clustered, total) ==
    (2 * 10000 * clustered + total) \div (2 * total)

\* variant: num_clusters is one more than the largest cluster id
get_clustering_stats_MaxId(st) ==
    LET clustered == SelectSeq(st, LAMBDA b : b.cluster_id # <<>>)
        ids == {clustered[j].cluster_id[1] : j \in DOMAIN clustered}
    IN  [total_books |-> Len(st),
         clustered_books |-> Len(clustered),
         clustering_rate |-> 0,
         num_clusters |-> IF ids = {} THEN 0
                          ELSE 1 + CHOOSE m \in ids : \A o \in ids : o <= m,
         cluster_distribution |->
             [c \in ids |-> Len(get_books_by_cluster(st, c))]]

\* BookClusterer.get_clustering_stats
get_clustering_stats(st) ==
    LET clustered == SelectSeq(st, LAMBDA b : b.cluster_id # <<>>)
        ids == {clustered[j].cluster_id[1] : j \in DOMAIN clustered}
    IN  IF clustered = <<>>
        THEN [total_books |-> Len(st), clustered_books |-> 0,
              clustering_rate |-> 0, num_clusters |-> 0,
              cluster_distribution |-> <<>>]
        ELSE [total_books |-> Len(st),
              clustered_books |-> Len(clustered),
              clustering_rate |-> clustering_rate(Len(clustered), Len(st)),
              num_clusters |-> Cardinality(ids),
              cluster_distribution |->
                  [c \in ids |-> Len(get_books_by_cluster(st, c))]]

\* key = lambda x: x.centroid_distance or float('inf'): None and 0.0 are
\* falsy, so both get the key infinity
KeyIsInf(b) == b.centroid_distance = <<>> \/ b.centroid_distance[1] = 0

\* key(a) < key(b)
KeyLess(a, b) ==
    /\ ~KeyIsInf(a)
    /\ KeyIsInf(b) \/ a.centroid_distance[1] < b.centroid_distance[1]

\* list.insert before the first element with a larger key
RECURSIVE InsertByKey(_, _)
InsertByKey(sorted, x) ==
    IF sorted = <<>> THEN <<x>>
    ELSE IF KeyLess(x, Head(sorted)) THEN <<x>> \o sorted
    ELSE <<Head(sorted)>> \o InsertByKey(Tail(sorted), x)

\* sorted(books, key = ...): stable, ascending by key
RECURSIVE SortedByKey(_)
SortedByKey(bs) ==
    IF bs = <<>> THEN <<>>
    ELSE InsertByKey(SortedByKey(SubSeq(bs, 1, Len(bs) - 1)), bs[Len(bs)])

\* the dictionary built for one exemplar (the columns the model holds)
Exemplar(b) == [book_id |-> b.book_id, centroid_distance |-> b.centroid_distance]

\* variant: the books in table order, not sorted
get_cluster_exemplars_Unsorted(st, cid, limit) ==
    LET bs == get_books_by_cluster(st, cid)
    IN  Tup([j \in 1..Min(limit, Len(bs)) |-> Exemplar(bs[j])])

\* BookClusterer.get_cluster_exemplars: books_sorted[:limit]
get_cluster_exemplars(st, cid, limit) ==
    LET bs == SortedByKey(get_books_by_cluster(st, cid))
    IN  Tup([j \in 1..Min(limit, Len(bs)) |-> Exemplar(bs[j])])

\* limit: int = 5
DefaultLimit == 5

\* BookClusterer.get_all_cluster_exemplars:
\* for cluster_id in range(stats['num_clusters'])
get_all_cluster_exemplars(st) ==
    [c \in 0..(get_clustering_stats(st).num_clusters - 1) |->
        get_cluster_exemplars(st, c, DefaultLimit)]

\* the calls are made on the store a finished run left, one per behaviour
CanQuery == pc = "done" /\ query.op = "none"

QueryRest ==
    <<store, min_k, max_k, pc, embeddings, row_of, books, k, best_k,
      best_score, evaluated, scored, raised, last_outcome, optimal_k,
      cluster_labels, centroid_distances, umap_coords, i, updated_count,
      written, failed, result, run_no, last_k, prev, changes, memo, rec,
      n_components>>

GetClusteringStats ==
    /\ CanQuery
    /\ query' = [op |-> "stats", calls |-> 1, cluster_id |-> 0, limit |-> 0,
                 out |-> get_clustering_stats(store)]
    /\ UNCHANGED QueryRest

GetClusterExemplars ==
    /\ CanQuery
    /\ \E cid \in 0..(MaxK - 1), limit \in 0..MaxLimit :
          query' = [op |-> "exemplars", calls |-> 1, cluster_id |-> cid,
                    limit |-> limit,
                    out |-> get_cluster_exemplars(store, cid, limit)]
    /\ UNCHANGED QueryRest

GetAllClusterExemplars ==
    /\ CanQuery
    /\ query' = [op |-> "all_exemplars", calls |-> 1, cluster_id |-> 0,
                 limit |-> DefaultLimit,
                 out |-> get_all_cluster_exemplars(store)]
    /\ UNCHANGED QueryRest

NextQuery ==
    \/ Next
    \/ GetClusteringStats
    \/ GetClusterExemplars
    \/ GetAllClusterExemplars

SpecQuery == Init /\ [][NextQuery]_vars

\* ------------------------------------------------------------ ingest.py
\* rows of a CSV file: the 'Book Id' column and what becomes of the row:
\* "ok" can be stored, "blank" has no Title or Author, "bad" makes
\* process_csv_row raise
CsvRows == [book_id : 1..MaxCsvIds, kind : {"ok", "blank", "bad"}]

CsvFiles == SeqsUpTo(CsvRows, MaxCsvRows)

NoStats == [total_rows |-> 0, processed_books |-> 0, skipped_books |-> 0,
            errors |-> 0]

\* variant: a row whose book is already stored is not counted at all
Skip_Uncounted(stats) == stats

\* stats['skipped_books'] += 1
Skip(stats) == [stats EXCEPT !.skipped_books = @ + 1]

\* the except branch of a row: the message is appended, the row is skipped
RowError(stats) ==
    [stats EXCEPT !.errors = @ + 1, !.skipped_books = @ + 1]

\* DatabaseManager.add_book: the new row goes to the end of the table
add_book(st, id) == Append(st, NewBook(id, NoEmb))

\* the loop `for index, row in df.iterrows()` from row n on; db_fails holds
\* the rows at which a database call raises
RECURSIVE ingest_rows(_, _, _, _, _)
ingest_rows(st, file, db_fails, n, stats) ==
    IF n > Len(file) THEN [store |-> st, stats |-> stats]
    ELSE LET row == file[n]
             counted == [stats EXCEPT !.total_rows = @ + 1]
         IN  IF row.kind = "blank"
             THEN ingest_rows(st, file, db_fails, n + 1, Skip(counted))
             ELSE IF row.kind = "bad" \/ n \in db_fails
             THEN ingest_rows(st, file, db_fails, n + 1, RowError(counted))
             ELSE IF HasBook(st, row.book_id)
             THEN ingest_rows(st, file, db_fails, n + 1, Skip(counted))
             ELSE ingest_rows(add_book(st, row.book_id), file, db_fails,
                              n + 1,
                              [counted EXCEPT !.processed_books = @ + 1])

\* GoodreadsIngester.ingest_csv(file_path) on an existing file
ingest_csv(st, file, db_fails) == ingest_rows(st, file, db_fails, 1, NoStats)

IngestRest ==
    <<min_k, max_k, pc, embeddings, row_of, books, k, best_k,
      best_score, evaluated, scored, raised, last_outcome, optimal_k,
      cluster_labels, centroid_distances, umap_coords, i, updated_count,
      written, failed, result, run_no, last_k, prev, changes, memo, rec,
      n_components>>

\* POST /upload: ingester.ingest_csv(temp_path).  The call record keeps the
\* file and the statistics of the call before it.
IngestCsv ==
    /\ query.op \in {"none", "ingest"}
    /\ query.calls < MaxIngests
    /\ \E file \in CsvFiles : \E db_fails \in SUBSET DOMAIN file :
          LET res == ingest_csv(store, file, db_fails)
          IN  /\ store' = res.store
              /\ query' = [op |-> "ingest", calls |-> query.calls + 1,
                           cluster_id |-> 0, limit |-> 0,
                           out |-> [file |-> file, stats |-> res.stats,
                                    before |-> IF query.op = "ingest"
                                               THEN <<[file |-> query.out.file,
                                                       stats |-> query.out.stats]>>
                                               ELSE <<>>]]
    /\ UNCHANGED IngestRest

InitIngest ==
    /\ store = <<>>
    /\ min_k = 1
    /\ max_k = 1
    /\ pc = "idle"
    /\ embeddings = <<>>
    /\ row_of = <<>>
    /\ books = <<>>
    /\ k = min_k
    /\ best_k = min_k
    /\ best_score = InitBestScore
    /\ evaluated = {}
    /\ scored = {}
    /\ raised = {}
    /\ last_outcome = "none"
    /\ optimal_k = 0
    /\ cluster_labels = <<>>
    /\ centroid_distances = <<>>
    /\ umap_coords = <<>>
    /\ i = 0
    /\ updated_count = 0
    /\ written = {}
    /\ failed = {}
    /\ result = NoResult
    /\ run_no = 1
    /\ last_k = 0
    /\ prev = NoPrev
    /\ changes = 0
    /\ memo = {}
    /\ rec = NoRec
    /\ n_components = umap_n_components
    /\ query = NoQuery

NextIngest == IngestCsv

SpecIngest == InitIngest /\ [][NextIngest]_vars

\* ------------------------------------------------------ embed_all_books
\* batch_size = 50, scaled down so that a call on a few books has more
\* than one batch
BatchSize == 2

\* update_book(book_id, BookUpdate(embedding = json.dumps(embedding)))
put_embedding(st, id, e) ==
    [j \in 1..Len(st) |->
        IF st[j].book_id = id THEN [st[j] EXCEPT !.embedding = e] ELSE st[j]]

\* books_to_embed: the books with `not book.embedding`, cut to limit when
\* limit is truthy
books_to_embed(st, limit) ==
    LET todo == SelectSeq(st, LAMBDA b : ~HasEmbedding(b))
    IN  IF limit # 0 THEN SubSeq(todo, 1, Min(limit, Len(todo))) ELSE todo

NoEmbedStats == [total_books |-> 0, embedded |-> 0, skipped |-> 0,
                 errors |-> 0]

\* except Exception: stats['errors'] += len(batch)
BatchError(stats, size) == [stats EXCEPT !.errors = @ + size]

\* `for book, embedding in zip(batch, embeddings)` from position n of the
\* batch on; got[j] says whether the service returned a vector for book j of
\* the call, upd_fails holds the books whose update_book raises
RECURSIVE embed_batch(_, _, _, _, _, _, _, _)
embed_batch(st, todo, lo, hi, n, got, upd_fails, stats) ==
    IF n > hi THEN [store |-> st, stats |-> stats]
    ELSE IF ~got[n]
    THEN embed_batch(st, todo, lo, hi, n + 1, got, upd_fails,
                     [stats EXCEPT !.errors = @ + 1])
    ELSE IF n \in upd_fails
    THEN [store |-> st,
          stats |-> BatchError(stats, hi - lo + 1)]
    ELSE embed_batch(put_embedding(st, todo[n].book_id, JsonEmb(<<0>>)),
                     todo, lo, hi, n + 1, got, upd_fails,
                     [stats EXCEPT !.embedded = @ + 1])

\* `for i in range(0, len(books_to_embed), batch_size)` from the batch that
\* starts at lo on; text_fails holds the batch starts at which building the
\* texts raises
RECURSIVE embed_batches(_, _, _, _, _, _, _)
embed_batches(st, todo, lo, got, text_fails, upd_fails, stats) ==
    IF lo > Len(todo) THEN [store |-> st, stats |-> stats]
    ELSE LET hi == Min(lo + BatchSize - 1, Len(todo))
             res == IF lo \in text_fails
                    THEN [store |-> st,
                          stats |-> BatchError(stats, hi - lo + 1)]
                    ELSE embed_batch(st, todo, lo, hi, lo, got, upd_fails,
                                     stats)
         IN  embed_batches(res.store, todo, hi + 1, got, text_fails,
                           upd_fails, res.stats)

\* EmbeddingGenerator.embed_all_books(limit)
embed_all_books(st, limit, got, text_fails, upd_fails) ==
    LET todo == books_to_embed(st, limit)
    IN  embed_batches(st, todo, 1, got, text_fails, upd_fails,
                      [NoEmbedStats EXCEPT !.total_books = Len(todo)])

\* POST /embed: embedding_generator.embed_all_books(limit=limit).  The call
\* record keeps the store the call started from and the books it selected.
EmbedAllBooks ==
    /\ query.op = "none"
    /\ \E limit \in 0..MaxLimit :
          LET todo == books_to_embed(store, limit)
          IN  \E got \in [DOMAIN todo -> BOOLEAN] :
              \E text_fails \in SUBSET {lo \in DOMAIN todo :
                                           lo % BatchSize = 1 % BatchSize} :
              \E upd_fails \in SUBSET DOMAIN todo :
                 LET res == embed_all_books(store, limit, got, text_fails,
                                            upd_fails)
                 IN  /\ store' = res.store
                     /\ query' = [op |-> "embed", calls |-> 1,
                                  cluster_id |-> 0, limit |-> limit,
                                  out |-> [stats |-> res.stats,
                                           selected |->
                                               {todo[j].book_id : j \in DOMAIN todo},
                                           before |-> store]]
    /\ UNCHANGED IngestRest

\* book tables of up to MaxEmbedBooks books, with or without an embedding
EmbedStores ==
    UNION {{[j \in 1..n |-> NewBook(j, es[j])] :
               es \in [1..n -> {NoEmb, BadEmb, JsonEmb(<<1>>)}]} :
           n \in 0..MaxEmbedBooks}

InitEmbed ==
    /\ store \in EmbedStores
    /\ min_k = 1
    /\ max_k = 1
    /\ pc = "idle"
    /\ embeddings = <<>>
    /\ row_of = <<>>
    /\ books = <<>>
    /\ k = min_k
    /\ best_k = min_k
    /\ best_score = InitBestScore
    /\ evaluated = {}
    /\ scored = {}
    /\ raised = {}
    /\ last_outcome = "none"
    /\ optimal_k = 0
    /\ cluster_labels = <<>>
    /\ centroid_distances = <<>>
    /\ umap_coords = <<>>
    /\ i = 0
    /\ updated_count = 0
    /\ written = {}
    /\ failed = {}
    /\ result = NoResult
    /\ run_no = 1
    /\ last_k = 0
    /\ prev = NoPrev
    /\ changes = 0
    /\ memo = {}
    /\ rec = NoRec
    /\ n_components = umap_n_components
    /\ query = NoQuery

NextEmbed == EmbedAllBooks

SpecEmbed == InitEmbed /\ [][NextEmbed]_vars

\* ======================================================== properties
BookIds(st) == {st[j].book_id : j \in DOMAIN st}
BadIds(st) == {st[j].book_id : j \in {q \in DOMAIN st : st[q].embedding.kind = "bad"}}
ValidIds(st) == {st[j].book_id : j \in {q \in DOMAIN st : Decodes(st[q])}}
ScoredKs == {p[1] : p \in scored}

\* the run has both the matrix and the book list in hand
InRun == pc \in {"find_k", "cluster", "umap", "persist"}

\* C1: in every run of cluster_all_books row i of the matrix was built from
\* the embedding of element i of the book list, so the values persisted for
\* a book are the ones computed from its own row.
C1_RowsAligned ==
    InRun => /\ Len(row_of) = Len(books)
             /\ \A j \in DOMAIN books : row_of[j] = books[j]

\* C2: for an N-row matrix and 1 <= k <= N, perform_clustering returns N
\* labels and N distances, every label in [0, k), every distance >= 0, and
\* at most k distinct labels.
C2_AssignContract ==
    pc = "assigned" =>
        /\ Len(cluster_labels) = Len(embeddings)
        /\ Len(centroid_distances) = Len(embeddings)
        /\ \A r \in DOMAIN cluster_labels :
              0 <= cluster_labels[r] /\ cluster_labels[r] < optimal_k
        /\ \A r \in DOMAIN centroid_distances : centroid_distances[r] >= 0
        /\ Cardinality(Range(cluster_labels)) <= optimal_k

C2_Witness ==
    /\ pc = "assigned"
    /\ optimal_k = 2
    /\ Len(embeddings) >= 3
    /\ Range(cluster_labels) = {0, 1}
    /\ \E r \in DOMAIN centroid_distances : centroid_distances[r] > 0

\* C3: with min_k <= max_k, find_optimal_k returns a k in [min_k, max_k],
\* and exactly min_k when every candidate was skipped (an empty range
\* included).
C3_KWithinBounds ==
    pc = "cluster" =>
        /\ min_k <= optimal_k
        /\ optimal_k <= max_k
        /\ (scored = {} => optimal_k = min_k)

C3_Witness ==
    /\ pc = "cluster"
    /\ min_k < max_k
    /\ optimal_k = max_k
    /\ Len(embeddings) \div 2 > max_k + 1

\* C4 as stated: find_optimal_k evaluates exactly the candidates k with
\* min_k <= k <= min(max_k, floor(N/2)).
C4_RangeToHalf ==
    pc = "cluster" =>
        evaluated = {c \in min_k..max_k : c <= Len(embeddings) \div 2}

\* C4 amended: find_optimal_k evaluates exactly the candidates k with
\* min_k <= k <= min(max_k, floor(N/2) - 1): floor(N/2) itself is excluded.
C4_RangeBelowHalf ==
    pc = "cluster" =>
        evaluated = {c \in min_k..max_k : c <= Len(embeddings) \div 2 - 1}

C4_Witness ==
    /\ pc = "cluster"
    /\ evaluated # {}
    /\ max_k >= Len(embeddings) \div 2
    /\ Len(embeddings) \div 2 \notin evaluated

\* C5 as stated: if every evaluated candidate is skipped or scores <= 0,
\* find_optimal_k returns min_k.
C5_NonPositiveGivesMinK ==
    pc = "cluster" =>
        ((\A p \in scored : p[2] <= 0) => optimal_k = min_k)

\* C5 amended: find_optimal_k returns min_k if every evaluated candidate is
\* skipped or scores no more than -1, the initial best_score; as soon as one
\* candidate is scored above -1, even with a score <= 0, the k returned is a
\* scored candidate.
C5_AboveInitialReplaces ==
    pc = "cluster" =>
        /\ (\A p \in scored : p[2] <= (-1) * ScoreScale) => optimal_k = min_k
        /\ (\E p \in scored : p[2] > (-1) * ScoreScale) => optimal_k \in ScoredKs

C5_Witness ==
    /\ pc = "cluster"
    /\ scored # {}
    /\ \A p \in scored : p[2] <= 0
    /\ optimal_k # min_k

\* C6: when a candidate is scored, the k returned has the maximum score of
\* all scored candidates, and among candidates with that score it is the
\* smallest.
C6_FirstMaximum ==
    (pc = "cluster" /\ scored # {}) =>
        \E p \in scored :
            /\ p[1] = optimal_k
            /\ \A q \in scored : q[2] <= p[2]
            /\ \A q \in scored : q[2] = p[2] => p[1] <= q[1]

C6_Witness ==
    /\ pc = "cluster"
    /\ \E p, q \in scored :
          /\ p[1] < q[1]
          /\ p[2] = q[2]
          /\ optimal_k = p[1]
          /\ \A o \in scored : o[2] <= p[2]

\* a step of the loop body that skipped its candidate
SkipStep ==
    /\ pc = "find_k"
    /\ evaluated' # evaluated
    /\ last_outcome' \in {"raise", "single"}

\* C7: a candidate with a single distinct label, or whose clustering or
\* scoring raises, is skipped: best_k and best_score stay as they were, the
\* loop goes on with the next candidate, every candidate of the range is
\* evaluated before the return, and find_optimal_k never raises.
C7_SkipContinues ==
    /\ [][SkipStep => /\ best_k' = best_k
                      /\ best_score' = best_score
                      /\ pc' = "find_k"
                      /\ k' = k + 1]_vars
    /\ [](pc # "raised")
    /\ [](pc = "cluster" => \A c \in evaluated : \A d \in min_k..c : d \in evaluated)
    /\ [](pc = "cluster" => \A c \in raised : \A d \in c..(k - 1) : d \in evaluated)

C7_Witness ==
    /\ pc = "cluster"
    /\ \E c \in raised : \E p \in scored : c < p[1] /\ optimal_k = p[1]
    /\ \E c \in evaluated \ (raised \cup ScoredKs) : c < optimal_k

\* no stored embedding decodes
NoUsableEmbedding == ValidIds(store) = {}

\* C8: when no book carries a usable embedding, cluster_all_books returns
\* success = False with a non-empty error, runs neither the k search, the
\* assignment nor the projection, and modifies no book record.
C8_NoDataFails ==
    (NoUsableEmbedding /\ pc # "idle") =>
        /\ pc \in {"got_matrix", "done"}
        /\ pc = "done" => (~result.success /\ result.error # "")
        /\ evaluated = {} /\ optimal_k = 0
        /\ cluster_labels = <<>> /\ centroid_distances = <<>>
        /\ umap_coords = <<>>
        /\ written = {}
        /\ \A j \in DOMAIN store : store[j].cluster_id = <<>>

C8_Witness ==
    /\ pc = "done"
    /\ NoUsableEmbedding
    /\ BadIds(store) # {}
    /\ ~result.success

\* C9: when a stored embedding fails to decode and another book has a valid
\* one (all valid ones of one dimension), cluster_all_books returns
\* success = True, persists a result for every book with a valid embedding
\* (unless that book's own update raised) and leaves the undecodable book's
\* record alone.
C9_DropsOnlyBadBook ==
    (/\ pc = "done"
     /\ BadIds(store) # {}
     /\ ValidIds(store) # {}
     /\ ~IsRagged(get_embeddings_matrix(store))) =>
        /\ result.success
        /\ ValidIds(store) \subseteq written \cup failed
        /\ BadIds(store) \cap written = {}

\* C10: if persisting one book raises, that book is not counted in
\* updated_books, the remaining books are still persisted, and the call
\* returns a summary with success = True.
C10_PersistFailureAbsorbed ==
    (pc = "done" /\ failed # {}) =>
        /\ result.success
        /\ result.updated_books = Len(books) - Cardinality(failed)
        /\ Range(books) \ failed \subseteq written

\* sum of the values of a function with a finite domain
RECURSIVE SumFn(_)
SumFn(f) ==
    IF DOMAIN f = {} THEN 0
    ELSE LET x == CHOOSE y \in DOMAIN f : TRUE
         IN  f[x] + SumFn([y \in DOMAIN f \ {x} |-> f[y]])

\* C11: every successful summary of cluster_all_books has
\* 0 <= updated_books <= total_books, cluster_distribution counts that sum
\* to total_books, and only cluster ids of [0, optimal_k) as keys.
C11_SummaryConsistent ==
    (pc = "done" /\ result.success) =>
        /\ 0 <= result.updated_books
        /\ result.updated_books <= result.total_books
        /\ SumFn(result.cluster_distribution) = result.total_books
        /\ DOMAIN result.cluster_distribution \subseteq
               0..(result.optimal_k - 1)

\* a successful summary with a failed update and two clusters, one of them
\* of several books
C11_Witness ==
    /\ pc = "done"
    /\ result.success
    /\ result.updated_books < result.total_books
    /\ Cardinality(DOMAIN result.cluster_distribution) >= 2
    /\ \E l \in DOMAIN result.cluster_distribution :
          result.cluster_distribution[l] >= 2

\* C13: cluster_all_books never raises to its caller, whatever the store
\* holds: the call always ends by returning a result dictionary.
C13_NeverRaises == pc # "raised"

\* k of the most recent successful call (0 = no call succeeded yet)
LastSuccessK ==
    IF pc = "done" /\ result.success THEN result.optimal_k ELSE last_k

\* C12: after any sequence of calls, with update failures and changes of
\* the book table between the calls, every stored cluster_id lies in [0, k)
\* for the k chosen by the most recent successful call.
C12_ClusterIdBelowLastK ==
    (pc \in {"idle", "done", "raised"} /\ LastSuccessK > 0) =>
        \A j \in DOMAIN store :
            store[j].cluster_id # <<>> =>
                store[j].cluster_id[1] \in 0..(LastSuccessK - 1)

\* C12 as the code has it: every stored cluster_id lies in [0, max_k), and
\* after a successful call every book whose record that call updated has a
\* cluster_id in [0, k) for the k of that call; the other books keep the
\* value an earlier call gave them.
C12_ClusterIdOfWritingRun ==
    /\ \A j \in DOMAIN store :
          store[j].cluster_id # <<>> =>
              store[j].cluster_id[1] \in 0..(max_k - 1)
    /\ (pc = "done" /\ result.success) =>
          \A j \in DOMAIN store :
              store[j].book_id \in written =>
                  /\ store[j].cluster_id # <<>>
                  /\ store[j].cluster_id[1] \in 0..(result.optimal_k - 1)

\* a second, successful call has updated some books and left another with
\* the cluster_id of the first call, which is no cluster of the second
C12_Witness ==
    /\ run_no = 2
    /\ pc = "done"
    /\ result.success
    /\ written # {}
    /\ \E j \in DOMAIN store :
          /\ store[j].book_id \notin written
          /\ store[j].cluster_id # <<>>
          /\ store[j].cluster_id[1] >= result.optimal_k

\* the book table holds the books and embeddings the last call ended with
SameCorpus ==
    /\ Len(store) = Len(prev.store)
    /\ \A j \in DOMAIN store :
          /\ store[j].book_id = prev.store[j].book_id
          /\ store[j].embedding = prev.store[j].embedding

C15_OwnRowPersisted ==
    pc \in {"persist", "done"} =>
        \A j \in 1..i :
            /\ j <= Len(row_of)
            /\ j <= Len(books)
            /\ row_of[j] = books[j]

\* the last call of the recommender has returned this list
Returned(call) == rec.pc = "returned" /\ rec.call = call

\* scores never go up along the list
NonIncreasing(out) ==
    \A a, b \in DOMAIN out : a < b => out[a].score >= out[b].score

\* C16: for every limit >= 0 the list recommend_books returns has at most
\* limit entries and is ordered by non-increasing score.
C16_AtMostLimitSorted ==
    Returned("recommend") =>
        /\ Len(rec.out) <= rec.limit
        /\ NonIncreasing(rec.out)

\* no book of the table has an embedding (an empty table included)
NoCandidateEmbedded == \A j \in DOMAIN store : ~HasEmbedding(store[j])

\* C17: recommend_books returns an empty list when there is no candidate
\* book, when no candidate has an embedding, or when no model is available.
C17_EmptyWhenNothingToScore ==
    (Returned("recommend") /\ (NoCandidateEmbedded \/ ~rec.model)) =>
        rec.out = <<>>

\* C18: get_similar_books returns an empty list whenever the target book
\* is not in the table or has no embedding.
C18_EmptyWithoutTargetEmbedding ==
    (/\ Returned("similar")
     /\ \A j \in DOMAIN store :
           store[j].book_id = rec.target => ~HasEmbedding(store[j])) =>
        rec.out = <<>>

\* C19: the list get_similar_books returns never holds the target book,
\* has at most the requested number of entries and is ordered by
\* non-increasing similarity.
C19_OthersOnlyLimitedSorted ==
    Returned("similar") =>
        /\ \A j \in DOMAIN rec.out : rec.out[j].book_id # rec.target
        /\ Len(rec.out) <= rec.limit
        /\ NonIncreasing(rec.out)

WeightNames == {"similarity_weight", "rating_weight", "novelty_weight"}

\* C20: a constructed recommender holds three scoring weights, each its
\* raw value divided by the raw sum, so that they sum to 1 (in tenths:
\* FullScore).
C20_WeightsSumToOne ==
    rec.pc # "new" =>
        /\ WeightNames \subseteq rec.attrs
        /\ rec.weights["similarity_weight"] + rec.weights["rating_weight"]
               + rec.weights["novelty_weight"] = FullScore

\* ----------------------------------------------------------------- C21
\* the book of the store with this id
StoredBook(id) == CHOOSE b \in {store[j] : j \in DOMAIN store} : b.book_id = id

\* C21: the projection of an N-row matrix has N rows of n_components
\* coordinates, and a run whose updates all go through stores a projection_x
\* and a projection_y for every book, whatever n_components is configured
C21_ProjectionPersisted ==
    (pc = "done" /\ umap_coords # <<>> /\ failed = {}
        /\ Len(books) = Len(cluster_labels)) =>
        /\ Len(umap_coords) = Len(embeddings)
        /\ \A r \in 1..Len(umap_coords) : Len(umap_coords[r]) = n_components
        /\ \A j \in 1..Len(books) :
              /\ books[j] \in written
              /\ StoredBook(books[j]).umap_x # <<>>
              /\ StoredBook(books[j]).umap_y # <<>>

\* ----------------------------------------------------------------- C22
\* the cluster ids held by at least one book of the store
StoredClusterIds ==
    {store[j].cluster_id[1] : j \in {q \in DOMAIN store : store[q].cluster_id # <<>>}}

\* C22: get_clustering_stats returns clustered_books <= total_books, a
\* distribution whose counts sum to clustered_books and whose keys are the
\* cluster ids held by some book, num_clusters equal to the number of keys,
\* and zeros with an empty distribution when no book has a cluster_id
C22_StatsConsistent ==
    query.op = "stats" =>
        LET o == query.out
        IN  /\ o.clustered_books <= o.total_books
            /\ SumFn(o.cluster_distribution) = o.clustered_books
            /\ DOMAIN o.cluster_distribution = StoredClusterIds
            /\ o.num_clusters = Cardinality(DOMAIN o.cluster_distribution)
            /\ StoredClusterIds = {} =>
                  /\ o.clustered_books = 0
                  /\ o.num_clusters = 0
                  /\ o.cluster_distribution = <<>>

\* statistics of a store where some but not all books are clustered and
\* the stored ids do not start at 0
C22_Witness ==
    /\ query.op = "stats"
    /\ 0 < query.out.clustered_books
    /\ query.out.clustered_books < query.out.total_books
    /\ 0 \notin StoredClusterIds

\* ----------------------------------------------------------------- C23
\* C23: get_cluster_exemplars(cluster_id, limit) returns at most limit books,
\* all of that cluster, in non-decreasing centroid_distance order, and no
\* book of the cluster it leaves out is strictly closer than one it returns
C23_ClosestFirst ==
    query.op = "exemplars" =>
        LET out == query.out
            members == {store[j] : j \in {q \in DOMAIN store :
                            store[q].cluster_id = <<query.cluster_id>>}}
            returned == {out[j].book_id : j \in DOMAIN out}
        IN  /\ Len(out) <= query.limit
            /\ returned \subseteq {b.book_id : b \in members}
            /\ \A a, b \in DOMAIN out :
                  a < b => out[a].centroid_distance[1]
                               <= out[b].centroid_distance[1]
            /\ \A b \in members : \A j \in DOMAIN out :
                  b.book_id \notin returned =>
                      b.centroid_distance[1] >= out[j].centroid_distance[1]

\* ----------------------------------------------------------------- C24
\* C24: when cluster_all_books returns a failure result, the run has
\* modified no book record
C24_FailureWritesNothing ==
    (pc = "done" /\ ~result.success) => written = {}

\* ----------------------------------------------------------------- C25
\* C25: the updated_books count of a successful run is the number of books
\* whose record that run wrote; a book whose record is gone at update time
\* is not counted
C25_CountsOnlyWritten ==
    (pc = "done" /\ result.success) =>
        result.updated_books = Cardinality(written)

\* ----------------------------------------------------------------- C26
\* C26: the k that find_optimal_k hands to perform_clustering is never
\* larger than the number of matrix rows, for every N >= 1 and every
\* configuration, an empty candidate range included
C26_KAtMostRows ==
    pc = "cluster" => optimal_k <= Len(embeddings)

\* ----------------------------------------------------------------- C27
\* C27: on every store a clustering run can leave, get_all_cluster_exemplars
\* has an entry for every cluster id held by at least one book
C27_EveryClusterListed ==
    query.op = "all_exemplars" =>
        StoredClusterIds \subseteq DOMAIN query.out

\* ----------------------------------------------------------------- C28
\* C28: every recommendation recommend_books returns, from a JSON answer or
\* from the text fallback, has a non-empty book_id, title, author and
\* explanation
C28_ReturnedAreValid ==
    Returned("recommend") =>
        \A j \in DOMAIN rec.out : validate_recommendation(rec.out[j])

\* ----------------------------------------------------------------- C29
\* the call is an ingest of the file the call before it ingested
SameFileAgain ==
    /\ query.op = "ingest"
    /\ query.out.before # <<>>
    /\ query.out.before[1].file = query.out.file

\* no two stored books share a book_id
UniqueBookIds ==
    \A a, b \in DOMAIN store : a # b => store[a].book_id # store[b].book_id

\* every ingest_csv call returns total_rows = processed_books + skipped_books
RowsAccounted ==
    query.op = "ingest" =>
        query.out.stats.total_rows =
            query.out.stats.processed_books + query.out.stats.skipped_books

C30_EveryBookCountedOnce ==
    query.op = "embed" =>
        /\ query.out.stats.embedded + query.out.stats.errors
              = query.out.stats.total_books
        /\ \A j \in DOMAIN query.out.before :
              HasEmbedding(query.out.before[j]) =>
                  /\ query.out.before[j].book_id \notin query.out.selected
                  /\ store[j] = query.out.before[j]

====
